---- MODULE Spec2Model ----
(***************************************************************************)
(* A model of the Go binding layer of go-enet-sharp: the per-peer          *)
(* application data slot (peer.go), the Host wrapper (host.go) and the     *)
(* Address wrapper.  The native library behind the cgo calls is the        *)
(* environment of the wrappers.                                            *)
(***************************************************************************)
EXTENDS Integers, Sequences, FiniteSets, TLC

VARIABLES
    \* ---- peer.go: the application data slot of one peer
    cData,        \* peer.cPeer.data: NULL or the address of a C buffer
    heap,         \* the C heap: address -> [live, hdr, hi, lo, pat]
    lastSet,      \* argument of the most recent SetData call
    hasSet,       \* TRUE once SetData has been called
    got,          \* outcome of the most recent SetData/GetData call
    dataOp,       \* the most recent call on the data slot
    prevData,     \* value of peer.cPeer.data when the most recent call began
    lastFreed,    \* the address the most recent call passed to C.free, or NULL
    doubleFree,   \* C.free was passed an address that was not allocated
    readFreed,    \* GetData read through a pointer to a freed buffer
    \* ---- host.go: one Host and the native host behind it
    cHost,        \* host.cHost: [created, peerLimit, bind]
    peerState,    \* native peer slots: slot -> connection state
    events,       \* native events awaiting a service call, oldest first
    hostOp,       \* the most recent call on the Host or one of its Peers
    ret,          \* what that call returned, with what the native call reported
    dnPending,    \* peers DisconnectNow was called on since the last service call
    owed,         \* peers whose DisconnectNow has not yet been answered by an event
    \* ---- host.go: the traffic counters of the native host
    totalSentData, totalReceivedData, totalSentPackets, totalReceivedPackets,
    statOp,       \* the most recent call on the counters
    \* ---- the Address wrapper
    addrs,        \* address object -> [made, host, port] (its cAddr)
    addrOp,       \* the most recent call that involved an Address
    addrRet       \* what String() or GetPort() returned

dataVars == <<cData, heap, lastSet, hasSet, got, dataOp, prevData, lastFreed,
              doubleFree, readFreed>>

hostVars == <<cHost, peerState, events, hostOp, ret, dnPending, owed>>

statVars == <<totalSentData, totalReceivedData, totalSentPackets,
              totalReceivedPackets, statOp>>

addrVars == <<addrs, addrOp, addrRet>>

vars == <<dataVars, hostVars, statVars, addrVars>>

----------------------------------------------------------------------------
(* Byte slices.  A length is a pair hi * 2^16 + lo so that lengths up to    *)
(* 2^32 are exact; the content is periodic with period two, pat[1] at even  *)
(* offsets and pat[2] at odd ones.                                          *)

\* Number of addresses the C allocator can hand out.
MaxBuf == 2

NULL == 0
Addr == 1..MaxBuf

Half == 256 * 256

NilSlice == [nil |-> TRUE, hi |-> 0, lo |-> 0, pat |-> <<0, 0>>]

\* The slice of length hi * 2^16 + lo filled with the pattern p.
MkSlice(hi, lo, p) ==
    [nil |-> FALSE, hi |-> hi, lo |-> lo,
     pat |-> IF hi = 0 /\ lo = 0 THEN <<0, 0>>
             ELSE IF hi = 0 /\ lo = 1 THEN <<p[1], 0>>
             ELSE p]

\* Lengths drawn for SetData: 0, 1, 2, 300, 2^16, 2^31 - 1, 2^31, 2^32 - 1, 2^32.
SampleLens == { <<0, 0>>, <<0, 1>>, <<0, 2>>, <<0, 300>>, <<1, 0>>,
                <<32767, 65535>>, <<32768, 0>>, <<65535, 65535>>, <<65536, 0>> }

SamplePats == { <<7, 7>>, <<7, 200>> }

DataInputs ==
    {NilSlice} \cup { MkSlice(l[1], l[2], p) : l \in SampleLens, p \in SamplePats }

\* len(a) = len(b) and a[i] = b[i] for every i.
SameBytes(a, b) ==
    /\ a.hi = b.hi
    /\ a.lo = b.lo
    /\ (a.hi > 0 \/ a.lo >= 1) => a.pat[1] = b.pat[1]
    /\ (a.hi > 0 \/ a.lo >= 2) => a.pat[2] = b.pat[2]

\* len(data) > math.MaxUint32
ExceedsMaxUint32(d) == d.hi >= Half

\* binary.LittleEndian.PutUint32(b, uint32(len(data))): the four header bytes.
PutUint32(hi, lo) ==
    LET h == hi % Half
    IN  << lo % 256, lo \div 256, h % 256, h \div 256 >>

\* binary.LittleEndian.Uint32(header), as the pair <<hi, lo>>.
Uint32(header) ==
    << header[3] + 256 * header[4], header[1] + 256 * header[2] >>

\* C.int(v) for a uint32 v: a 32-bit two's-complement value.  Only its sign
\* and, when it is not negative, its magnitude are used.
CInt(v) == [neg |-> v[1] >= 32768, hi |-> v[1], lo |-> v[2]]

FreeBlock == [live |-> FALSE, hdr |-> <<0, 0, 0, 0>>, hi |-> 0, lo |-> 0,
              pat |-> <<0, 0>>]

\* b := make([]byte, len(data)+4); PutUint32(b, ...); copy(b[4:], data);
\* C.CBytes(b): the block written to C memory.
CBytes(d) ==
    [live |-> TRUE, hdr |-> PutUint32(d.hi, d.lo), hi |-> d.hi, lo |-> d.lo,
     pat |-> d.pat]

\* if existing != nil { C.free(existing) }: the heap afterwards and the
\* address handed to C.free (NULL when free is not called).
\* (FreeExistingLeak: the same without the call to C.free.)
FreeExistingLeak(h, existing) == [heap |-> h, freed |-> NULL]
FreeExisting(h, existing) ==
    IF existing # NULL
    THEN [heap |-> [h EXCEPT ![existing] = FreeBlock], freed |-> existing]
    ELSE [heap |-> h, freed |-> NULL]

\* peer.cPeer.data = nil in the nil branch of SetData.
\* (ClearedDataKeep: the branch returning without the assignment.)
ClearedDataKeep(existing) == existing
ClearedData(existing) == NULL

Outcome(kind, val) == [kind |-> kind, val |-> val]

\* What a read through a dangling or overrun pointer may produce.
Garbage ==
    { Outcome("panic", NilSlice) } \cup
    { Outcome("value", MkSlice(0, n, p)) : n \in {0, 2}, p \in SamplePats }

\* C.GoBytes(ptr+4, n) on the block blk: the possible outcomes.
GoBytes(blk, n) ==
    IF ~blk.live THEN Garbage
    ELSE IF n.neg THEN { Outcome("panic", NilSlice) }
    ELSE IF n.hi = 0 /\ n.lo = 0 THEN { Outcome("value", MkSlice(0, 0, blk.pat)) }
    ELSE IF n.hi < blk.hi \/ (n.hi = blk.hi /\ n.lo <= blk.lo)
         THEN { Outcome("value", MkSlice(n.hi, n.lo, blk.pat)) }
    ELSE Garbage

SetData(d) ==
    /\ UNCHANGED <<hostVars, statVars, addrVars>>
    /\ dataOp' = "SetData"
    /\ lastSet' = d
    /\ hasSet' = TRUE
    /\ prevData' = cData
    /\ UNCHANGED readFreed
    /\ IF ExceedsMaxUint32(d)
       THEN /\ got' = Outcome("panic", NilSlice)
            /\ lastFreed' = NULL
            /\ UNCHANGED <<cData, heap, doubleFree>>
       ELSE LET existing == cData
                r == FreeExisting(heap, existing)
            IN  /\ got' = Outcome("none", NilSlice)
                /\ lastFreed' = r.freed
                /\ doubleFree' = (doubleFree \/
                                  (r.freed # NULL /\ ~heap[r.freed].live))
                /\ IF d.nil
                   THEN /\ cData' = ClearedData(existing)
                        /\ heap' = r.heap
                   ELSE \E a \in Addr :
                            /\ ~r.heap[a].live
                            /\ heap' = [r.heap EXCEPT ![a] = CBytes(d)]
                            /\ cData' = a

GetData ==
    /\ UNCHANGED <<hostVars, statVars, addrVars>>
    /\ dataOp' = "GetData"
    /\ prevData' = cData
    /\ lastFreed' = NULL
    /\ UNCHANGED <<cData, heap, lastSet, hasSet, doubleFree>>
    /\ LET ptr == cData
       IN  IF ptr = NULL
           THEN /\ got' = Outcome("value", NilSlice)
                /\ UNCHANGED readFreed
           ELSE LET header == heap[ptr].hdr
                IN  /\ got' \in GoBytes(heap[ptr], CInt(Uint32(header)))
                    /\ readFreed' = (readFreed \/ ~heap[ptr].live)

InitData ==
    /\ cData = NULL
    /\ heap = [a \in Addr |-> FreeBlock]
    /\ lastSet = NilSlice
    /\ hasSet = FALSE
    /\ got = Outcome("none", NilSlice)
    /\ dataOp = "none"
    /\ prevData = NULL
    /\ lastFreed = NULL
    /\ doubleFree = FALSE
    /\ readFreed = FALSE


----------------------------------------------------------------------------
(* Properties of the data slot (specification SpecData).                    *)

\* The most recent call was a GetData that followed a completed SetData(d)
\* with d non-nil and len(d) <= 2^32 - 1.
AfterRoundTrip ==
    /\ dataOp = "GetData"
    /\ hasSet
    /\ ~lastSet.nil
    /\ ~ExceedsMaxUint32(lastSet)

\* C1: for every non-nil d with 0 <= len(d) <= 2^32 - 1, SetData(d) followed
\* by GetData() returns a slice of the same length, byte-for-byte equal to d.
C1_RoundTrip ==
    AfterRoundTrip =>
        /\ got.kind = "value"
        /\ ~got.val.nil
        /\ SameBytes(got.val, lastSet)

\* C9: GetData() returns nil whenever no data is set on the peer: before any
\* SetData call and after a series of SetData calls that ends in SetData(nil).
C9_NilWhenUnset ==
    (dataOp = "GetData" /\ (~hasSet \/ lastSet.nil)) =>
        (got.kind = "value" /\ got.val.nil)

\* C9 witness: data was set, then cleared with SetData(nil), then read.
C9_Witness ==
    /\ dataOp = "GetData"
    /\ hasSet
    /\ lastSet.nil
    /\ cData = NULL
    /\ got.kind = "value"
    /\ got.val.nil

LiveBlocks == { a \in Addr : heap[a].live }

\* C10: over any series of SetData and GetData calls the peer owns at most
\* one native buffer, the one peer.cPeer.data points to; a SetData call that
\* runs frees the previously stored buffer (and nothing else) once, SetData(nil)
\* leaves no buffer allocated, no buffer is freed twice and GetData never
\* reads a freed buffer.
C10_SingleOwnedBuffer ==
    /\ Cardinality(LiveBlocks) <= 1
    /\ LiveBlocks = (IF cData = NULL THEN {} ELSE {cData})
    /\ (dataOp = "SetData" /\ got.kind # "panic") => lastFreed = prevData
    /\ (dataOp = "SetData" /\ got.kind # "panic" /\ lastSet.nil) =>
           (cData = NULL /\ LiveBlocks = {})
    /\ ~doubleFree
    /\ ~readFreed

\* C10 witness: a SetData that replaced a stored buffer by a new one, freeing
\* the old one.
C10_Witness ==
    /\ dataOp = "SetData"
    /\ prevData # NULL
    /\ lastFreed = prevData
    /\ cData # NULL
    /\ ~lastSet.nil

----------------------------------------------------------------------------
(* host.go and the Peer operations that reach the native host.              *)

\* Number of native peer slots the model gives a host.
MaxPeers == 2
\* Number of events the native host can hold between service calls.
MaxEvents == 2

Slots == 1..MaxPeers

NoHost == [created |-> FALSE, peerLimit |-> 0, bind |-> FALSE]

\* The zero value of enetEvent: ENET_EVENT_TYPE_NONE, no peer.
EmptyEvent == [type |-> "None", peer |-> NULL]
Event(type, p) == [type |-> type, peer |-> p]

\* The peers the host holds: the slots that are not Disconnected.
Held(ps) == { p \in Slots : ps[p] # "Disconnected" }

Lowest(S) == CHOOSE p \in S : \A q \in S : p <= q

\* What one service tick may find: a datagram from the transport or the
\* expiry of a peer's timeout.
Arrivals ==
    { [kind |-> "None", peer |-> NULL], [kind |-> "Connect", peer |-> NULL] } \cup
    { [kind |-> k, peer |-> p] :
        k \in {"ConnectAck", "Disconnect", "DisconnectAck", "Data", "Timeout"},
        p \in Slots }

\* The peer state machine's reaction to one arrival: the peer states and the
\* event queue afterwards.
HandleArrival(h, ps, q, arr) ==
    LET p == arr.peer
        free == Slots \ Held(ps)
        to(st, ev) == [ps |-> [ps EXCEPT ![p] = st],
                       q |-> IF ev = "None" THEN q ELSE Append(q, Event(ev, p))]
        same == [ps |-> ps, q |-> q]
    IN  CASE arr.kind = "Connect" ->
                IF h.bind /\ Cardinality(Held(ps)) < h.peerLimit /\ free # {}
                THEN [ps |-> [ps EXCEPT ![Lowest(free)] = "Connected"],
                      q |-> Append(q, Event("Connect", Lowest(free)))]
                ELSE same
          [] arr.kind = "ConnectAck" ->
                IF ps[p] = "Connecting" THEN to("Connected", "Connect") ELSE same
          [] arr.kind = "Disconnect" ->
                IF ps[p] \in {"Connected", "Disconnecting"}
                THEN to("Disconnected", "Disconnect") ELSE same
          [] arr.kind = "DisconnectAck" ->
                IF ps[p] = "Disconnecting"
                THEN to("Disconnected", "Disconnect") ELSE same
          [] arr.kind = "Data" ->
                IF ps[p] = "Connected" THEN to(ps[p], "Receive") ELSE same
          [] arr.kind = "Timeout" ->
                IF ps[p] # "Disconnected"
                THEN to("Disconnected", "Disconnect") ELSE same
          [] OTHER -> same

\* C.enet_host_service(host, &event, timeout): the return code, the event
\* written through the pointer, the native state afterwards, and the events
\* that were pending when the call chose what to report.  A failing call
\* (rc < 0) reports no event.
EnetHostService(h, ps, q, arr, fails) ==
    IF fails
    THEN [rc |-> -1, event |-> EmptyEvent, ps |-> ps, q |-> q, pending |-> q]
    ELSE LET n == HandleArrival(h, ps, q, arr)
         IN  IF n.q = << >>
             THEN [rc |-> 0, event |-> EmptyEvent, ps |-> n.ps, q |-> n.q,
                   pending |-> n.q]
             ELSE [rc |-> 1, event |-> Head(n.q), ps |-> n.ps, q |-> Tail(n.q),
                   pending |-> n.q]

\* ret := &enetEvent{}; C.enet_host_service(host.cHost, &ret.cEvent, ...);
\* return ret -- the Event handed to the caller.
\* (ServiceReturnStale: an event the native call did not write.)
ServiceReturnStale(zero, written) == zero
ServiceReturn(zero, written) == written

\* A service call answers the DisconnectNow of the peer whose Disconnect
\* event it returns.
Answered(ev) == IF ev.type = "Disconnect" THEN {ev.peer} ELSE {}

ServiceStep(op) ==
    /\ cHost.created
    /\ \E arr \in Arrivals, fails \in BOOLEAN :
        /\ Len(events) >= MaxEvents => arr.kind = "None"
        /\ fails => arr.kind = "None"
        /\ LET n == EnetHostService(cHost, peerState, events, arr, fails)
               out == IF op = "Service"
                      THEN ServiceReturn(EmptyEvent, n.event)
                      ELSE n.event
           IN  /\ peerState' = n.ps
               /\ events' = n.q
               /\ hostOp' = op
               /\ ret' = [event |-> out, nativeRc |-> n.rc, nativeEvent |-> n.event,
                          pending |-> n.pending,
                          answered |-> owed \cap Answered(out),
                          rc |-> IF op = "Service" THEN 0 ELSE n.rc]
               /\ dnPending' = {}
               /\ owed' = owed \ Answered(out)
    /\ UNCHANGED <<cHost, dataVars, statVars, addrVars>>

Service == ServiceStep("Service")

\* ServiceV2 writes the event through the caller's pointer and returns the
\* native return code.
ServiceV2 == ServiceStep("ServiceV2")

\* if addr != nil { cAddr = &(addr.(*enetAddress)).cAddr }: the pointer passed
\* to enet_host_create; "panic" stands for a nil dereference.
BindPointer(addr) == IF addr = "nil" THEN "NULL" ELSE "ptr"

\* if host == nil { return nil, errors.New(...) }; return &enetHost{...}, nil
\* (NewHostReturnNoCheck: the same without the nil test.)
NewHostReturnNoCheck(nativeHost) == [host |-> "enetHost", err |-> FALSE]
NewHostReturn(nativeHost) ==
    IF nativeHost = "NULL"
    THEN [host |-> "nil", err |-> TRUE]
    ELSE [host |-> "enetHost", err |-> FALSE]

NewHost(addr, peerCount) ==
    /\ ~cHost.created
    /\ hostOp' = "NewHost"
    /\ LET cAddr == BindPointer(addr)
       IN  IF cAddr = "panic"
           THEN /\ ret' = [host |-> "nil", err |-> FALSE, panic |-> TRUE,
                           addr |-> addr, cAddr |-> cAddr, native |-> "none"]
                /\ UNCHANGED cHost
           ELSE \E nativeHost \in {"NULL", "host"} :
                  LET r == NewHostReturn(nativeHost)
                  IN  /\ ret' = [host |-> r.host, err |-> r.err, panic |-> FALSE,
                                 addr |-> addr, cAddr |-> cAddr,
                                 native |-> nativeHost]
                      /\ cHost' = IF r.host = "nil" THEN NoHost
                                  ELSE [created |-> nativeHost = "host",
                                        peerLimit |-> peerCount,
                                        bind |-> cAddr = "ptr"]
    /\ UNCHANGED <<peerState, events, dnPending, owed, dataVars, statVars, addrVars>>

\* C.enet_host_destroy(host.cHost): every peer of the host is gone with it.
Destroy ==
    /\ cHost.created
    /\ hostOp' = "Destroy"
    /\ ret' = [rc |-> 0]
    /\ cHost' = NoHost
    /\ peerState' = [p \in Slots |-> "Disconnected"]
    /\ events' = << >>
    /\ dnPending' = {}
    /\ owed' = {}
    /\ UNCHANGED <<dataVars, statVars, addrVars>>

\* C.enet_host_connect: a free peer slot when the host holds fewer peers than
\* its limit, else NULL; it may also return NULL for want of memory.
EnetHostConnect(h, ps) ==
    {NULL} \cup (IF Cardinality(Held(ps)) < h.peerLimit THEN Slots \ Held(ps) ELSE {})

\* if peer == nil { return nil, errors.New(...) }; return enetPeer{cPeer: peer}, nil
\* A nil Peer has isNil; enetPeer{cPeer: p} has not.
\* (ConnectReturnNoCheck: the same without the nil test.)
ConnectReturnNoCheck(peer) ==
    [peer |-> [isNil |-> FALSE, cPeer |-> peer], err |-> FALSE]
ConnectReturn(peer) ==
    IF peer = NULL
    THEN [peer |-> [isNil |-> TRUE, cPeer |-> NULL], err |-> TRUE]
    ELSE [peer |-> [isNil |-> FALSE, cPeer |-> peer], err |-> FALSE]

Connect ==
    /\ cHost.created
    /\ hostOp' = "Connect"
    /\ \E peer \in EnetHostConnect(cHost, peerState) :
        LET r == ConnectReturn(peer)
        IN  /\ ret' = [peer |-> r.peer, err |-> r.err, native |-> peer,
                       wasFull |-> Cardinality(Held(peerState)) >= cHost.peerLimit]
            /\ peerState' = IF peer = NULL THEN peerState
                            ELSE [peerState EXCEPT ![peer] = "Connecting"]
    /\ UNCHANGED <<cHost, events, dnPending, owed, dataVars, statVars, addrVars>>

\* Which native call each of the three disconnect methods makes.
\* (DisconnectNowNativeWrong: DisconnectNow calling the handshake variant.)
DisconnectNative == "enet_peer_disconnect"
DisconnectNowNativeWrong == "enet_peer_disconnect"
DisconnectNowNative == "enet_peer_disconnect_now"
DisconnectLaterNative == "enet_peer_disconnect_later"

\* The native disconnect calls on peer p: the peer states and the event
\* queue afterwards.  DisconnectNow goes straight to Disconnected and emits
\* the local Disconnect event; Disconnect and DisconnectLater start the
\* handshake (the wait of DisconnectLater for queued reliable sends is not
\* followed: the peer counts as Disconnecting from the call on).
EnetPeerDisconnect(call, ps, q, p) ==
    IF call = "enet_peer_disconnect_now"
    THEN [ps |-> [ps EXCEPT ![p] = "Disconnected"],
          q |-> Append(q, Event("Disconnect", p))]
    ELSE [ps |-> IF ps[p] = "Connected"
                 THEN [ps EXCEPT ![p] = "Disconnecting"] ELSE ps,
          q |-> q]

PeerDisconnectStep(op, call, p) ==
    /\ cHost.created
    /\ peerState[p] # "Disconnected"
    /\ hostOp' = op
    /\ ret' = [peer |-> p]
    /\ LET n == EnetPeerDisconnect(call, peerState, events, p)
       IN  /\ peerState' = n.ps
           /\ events' = n.q
    /\ UNCHANGED <<cHost, dataVars, statVars, addrVars>>

Disconnect(p) ==
    /\ PeerDisconnectStep("Disconnect", DisconnectNative, p)
    /\ UNCHANGED <<dnPending, owed>>

DisconnectLater(p) ==
    /\ PeerDisconnectStep("DisconnectLater", DisconnectLaterNative, p)
    /\ UNCHANGED <<dnPending, owed>>

DisconnectNow(p) ==
    /\ Len(events) < MaxEvents
    /\ PeerDisconnectStep("DisconnectNow", DisconnectNowNative, p)
    /\ dnPending' = dnPending \cup {p}
    /\ owed' = owed \cup {p}

\* NewPacket(data, flags): a packet, or an error when the native packet
\* cannot be created.
NewPacket == {"packet", "error"}

\* C.enet_peer_send(peer, channel, packet): 0, or a negative code when the
\* packet cannot be queued.
EnetPeerSend(ps, p) == {0, -1}

\* C.enet_host_broadcast(host, channel, packet) reports no return code.
EnetHostBroadcast == {0}

\* SendPacket / BroadcastPacket: C.enet_...(...); return nil
SendPacketReturn(rc) == [called |-> TRUE, rc |-> rc, err |-> FALSE]

\* SendBytes, SendString, BroadcastBytes, BroadcastString: packet, err :=
\* NewPacket(...); if err != nil { return err }; return SendPacket(packet, ...)
ViaNewPacket(pkt, sendRet) ==
    IF pkt = "error" THEN [called |-> FALSE, rc |-> 0, err |-> TRUE] ELSE sendRet

SendStep(op, p) ==
    /\ cHost.created
    /\ hostOp' = op
    /\ \E rc \in EnetPeerSend(peerState, p) :
         IF op = "SendPacket"
         THEN ret' = SendPacketReturn(rc)
         ELSE \E pkt \in NewPacket : ret' = ViaNewPacket(pkt, SendPacketReturn(rc))
    /\ UNCHANGED <<cHost, peerState, events, dnPending, owed,
                   dataVars, statVars, addrVars>>

SendPacket(p) == SendStep("SendPacket", p)
SendBytes(p) == SendStep("SendBytes", p)
SendString(p) == SendStep("SendString", p)

BroadcastStep(op) ==
    /\ cHost.created
    /\ hostOp' = op
    /\ \E rc \in EnetHostBroadcast :
         IF op = "BroadcastPacket"
         THEN ret' = SendPacketReturn(rc)
         ELSE \E pkt \in NewPacket : ret' = ViaNewPacket(pkt, SendPacketReturn(rc))
    /\ UNCHANGED <<cHost, peerState, events, dnPending, owed,
                   dataVars, statVars, addrVars>>

BroadcastPacket == BroadcastStep("BroadcastPacket")
BroadcastBytes == BroadcastStep("BroadcastBytes")
BroadcastString == BroadcastStep("BroadcastString")

SendOps == {"SendPacket", "SendBytes", "SendString",
            "BroadcastPacket", "BroadcastBytes", "BroadcastString"}

InitHost ==
    /\ cHost = NoHost
    /\ peerState = [p \in Slots |-> "Disconnected"]
    /\ events = << >>
    /\ hostOp = "none"
    /\ ret = [rc |-> 0]
    /\ dnPending = {}
    /\ owed = {}

----------------------------------------------------------------------------
(* host.go: the four traffic counters.                                      *)

\* Largest counter value the model lets traffic reach.
MaxCount == 2

\* uint32(C.enet_host_get_bytes_sent(host.cHost)) and its three siblings.
GetBytesSent == totalSentData
GetPacketsSent == totalSentPackets
GetBytesReceived == totalReceivedData
GetPacketsReceived == totalReceivedPackets

\* The native host counts a packet of n bytes of application data it sent.
CountSent(n) ==
    /\ totalSentPackets < MaxCount
    /\ totalSentData + n <= MaxCount
    /\ totalSentPackets' = totalSentPackets + 1
    /\ totalSentData' = totalSentData + n
    /\ statOp' = "traffic"
    /\ UNCHANGED <<totalReceivedData, totalReceivedPackets,
                   dataVars, hostVars, addrVars>>

\* The native host counts a packet of n bytes of application data it received.
CountReceived(n) ==
    /\ totalReceivedPackets < MaxCount
    /\ totalReceivedData + n <= MaxCount
    /\ totalReceivedPackets' = totalReceivedPackets + 1
    /\ totalReceivedData' = totalReceivedData + n
    /\ statOp' = "traffic"
    /\ UNCHANGED <<totalSentData, totalSentPackets,
                   dataVars, hostVars, addrVars>>

\* The counters after each reset, as <<totalSentData, totalReceivedData,
\* totalSentPackets, totalReceivedPackets>>.
\* (ResetBytesSentBoth: ResetBytesSent clearing the packet counter as well.)
ResetBytesSentBoth(c) == <<0, c[2], 0, c[4]>>
ResetBytesSentFields(c) == <<0, c[2], c[3], c[4]>>
ResetBytesReceivedFields(c) == <<c[1], 0, c[3], c[4]>>
ResetPacketsSentFields(c) == <<c[1], c[2], 0, c[4]>>
ResetPacketsReceivedFields(c) == <<c[1], c[2], c[3], 0>>

Counters == <<totalSentData, totalReceivedData, totalSentPackets,
              totalReceivedPackets>>

ResetStep(op, c) ==
    /\ statOp' = op
    /\ totalSentData' = c[1]
    /\ totalReceivedData' = c[2]
    /\ totalSentPackets' = c[3]
    /\ totalReceivedPackets' = c[4]
    /\ UNCHANGED <<dataVars, hostVars, addrVars>>

ResetBytesSent == ResetStep("ResetBytesSent", ResetBytesSentFields(Counters))
ResetBytesReceived ==
    ResetStep("ResetBytesReceived", ResetBytesReceivedFields(Counters))
ResetPacketsSent == ResetStep("ResetPacketsSent", ResetPacketsSentFields(Counters))
ResetPacketsReceived ==
    ResetStep("ResetPacketsReceived", ResetPacketsReceivedFields(Counters))

InitStats ==
    /\ totalSentData = 0
    /\ totalReceivedData = 0
    /\ totalSentPackets = 0
    /\ totalReceivedPackets = 0
    /\ statOp = "none"

----------------------------------------------------------------------------
(* The Address wrapper: enetAddress holds a C.ENetAddress by value.         *)

\* Number of Address objects the model follows.
MaxAddr == 2

AddrIds == 1..MaxAddr

HostNames == {"127.0.0.1", "::", "localhost", "no.such.host"}
Ports == {9000, 9001}

\* enetAddress{}: the zero ENetAddress, all-zero host and port 0.
ZeroAddress == [made |-> FALSE, host |-> "::", port |-> 0]

\* C.enet_address_set_hostname(&addr.cAddr, name): the host values it may
\* store; none when the name does not resolve, and the field is left alone.
EnetAddressSetHostname(name) ==
    CASE name = "127.0.0.1" -> {"::ffff:127.0.0.1"}
      [] name = "::" -> {"::"}
      [] name = "localhost" -> {"::1", "::ffff:127.0.0.1"}
      [] OTHER -> {}

\* C.enet_address_get_ip(&addr.cAddr, buffer, 1025); C.GoString(buffer)
EnetAddressGetIp(host) ==
    IF host = "::ffff:127.0.0.1" THEN "127.0.0.1" ELSE host

\* SetHost: the values addr.cAddr may hold afterwards.
SetHostFields(c, name) ==
    IF EnetAddressSetHostname(name) = {} THEN {c}
    ELSE { [c EXCEPT !.host = h] : h \in EnetAddressSetHostname(name) }

\* SetPort: addr.cAddr.port = (C.uint16_t)(port), on the receiver alone.
\* (SetPortShared: every constructed Address sharing one cAddr.)
SetPortShared(as, a, port) ==
    [b \in AddrIds |-> IF as[b].made \/ b = a THEN [as[b] EXCEPT !.port = port]
                       ELSE as[b]]
SetPortFields(as, a, port) == [as EXCEPT ![a].port = port]

AddrStep(op, a, val) ==
    /\ addrOp' = op
    /\ addrRet' = [a |-> a, val |-> val]
    /\ UNCHANGED <<dataVars, hostVars, statVars>>

SetHost(a, name) ==
    /\ addrs[a].made
    /\ \E c \in SetHostFields(addrs[a], name) : addrs' = [addrs EXCEPT ![a] = c]
    /\ AddrStep("SetHost", a, "")

\* SetHostAny: addr.SetHost("::")
SetHostAny(a) ==
    /\ addrs[a].made
    /\ \E c \in SetHostFields(addrs[a], "::") : addrs' = [addrs EXCEPT ![a] = c]
    /\ AddrStep("SetHostAny", a, "")

SetPort(a, port) ==
    /\ addrs[a].made
    /\ addrs' = SetPortFields(addrs, a, port)
    /\ AddrStep("SetPort", a, "")

String(a) ==
    /\ addrs[a].made
    /\ UNCHANGED addrs
    /\ AddrStep("String", a, EnetAddressGetIp(addrs[a].host))

GetPort(a) ==
    /\ addrs[a].made
    /\ UNCHANGED addrs
    /\ AddrStep("GetPort", a, addrs[a].port)

\* ret := enetAddress{}; ret.SetHost(ip); ret.SetPort(port); return &ret
NewAddress(a, ip, port) ==
    /\ ~addrs[a].made
    /\ \E c \in SetHostFields(ZeroAddress, ip) :
         addrs' = [SetPortFields([addrs EXCEPT ![a] = c], a, port)
                     EXCEPT ![a].made = TRUE]
    /\ AddrStep("NewAddress", a, "")

\* ret := enetAddress{}; ret.SetHostAny(); ret.SetPort(port); return &ret
NewListenAddress(a, port) ==
    /\ ~addrs[a].made
    /\ \E c \in SetHostFields(ZeroAddress, "::") :
         addrs' = [SetPortFields([addrs EXCEPT ![a] = c], a, port)
                     EXCEPT ![a].made = TRUE]
    /\ AddrStep("NewListenAddress", a, "")

\* Peer.GetAddress: &enetAddress{cAddr: peer.cPeer.address}, a copy of the
\* address the native peer holds.
GetAddress(a, host, port) ==
    /\ ~addrs[a].made
    /\ addrs' = [addrs EXCEPT ![a] = [made |-> TRUE, host |-> host, port |-> port]]
    /\ AddrStep("GetAddress", a, "")

\* NewHost and Host.Connect hand &addr.cAddr to the native library, which
\* reads it.
PassToNative(op, a) ==
    /\ addrs[a].made
    /\ UNCHANGED addrs
    /\ AddrStep(op, a, "")

InitAddr ==
    /\ addrs = [a \in AddrIds |-> ZeroAddress]
    /\ addrOp = "none"
    /\ addrRet = [a |-> NULL, val |-> ""]

----------------------------------------------------------------------------
(* Specifications.                                                          *)

Init == InitData /\ InitHost /\ InitStats /\ InitAddr

\* The Host, its peers and its events.
Next ==
    \/ \E addr \in {"nil", "address"}, peerCount \in Slots : NewHost(addr, peerCount)
    \/ Destroy
    \/ Service
    \/ ServiceV2
    \/ Connect
    \/ \E p \in Slots : Disconnect(p)
    \/ \E p \in Slots : DisconnectNow(p)
    \/ \E p \in Slots : DisconnectLater(p)

Spec == Init /\ [][Next]_vars

\* The send and broadcast operations of a Host and its Peers.
NextSend ==
    \/ \E addr \in {"nil", "address"}, peerCount \in Slots : NewHost(addr, peerCount)
    \/ Destroy
    \/ Connect
    \/ \E p \in Slots : SendPacket(p)
    \/ \E p \in Slots : SendBytes(p)
    \/ \E p \in Slots : SendString(p)
    \/ BroadcastPacket
    \/ BroadcastBytes
    \/ BroadcastString

SpecSend == Init /\ [][NextSend]_vars

\* The application data slot of one peer.
NextData ==
    \/ \E d \in DataInputs : SetData(d)
    \/ GetData

SpecData == Init /\ [][NextData]_vars

\* The traffic counters of one host.
NextStats ==
    \/ \E n \in 1..MaxCount : CountSent(n)
    \/ \E n \in 1..MaxCount : CountReceived(n)
    \/ ResetBytesSent
    \/ ResetBytesReceived
    \/ ResetPacketsSent
    \/ ResetPacketsReceived

SpecStats == Init /\ [][NextStats]_vars

\* Address objects.
NextAddr ==
    \/ \E a \in AddrIds, ip \in HostNames, port \in Ports : NewAddress(a, ip, port)
    \/ \E a \in AddrIds, port \in Ports : NewListenAddress(a, port)
    \/ \E a \in AddrIds, h \in {"::1", "::ffff:127.0.0.1"}, port \in Ports :
          GetAddress(a, h, port)
    \/ \E a \in AddrIds, name \in HostNames : SetHost(a, name)
    \/ \E a \in AddrIds : SetHostAny(a)
    \/ \E a \in AddrIds, port \in Ports : SetPort(a, port)
    \/ \E a \in AddrIds : String(a)
    \/ \E a \in AddrIds : GetPort(a)
    \/ \E a \in AddrIds : PassToNative("NewHost", a)
    \/ \E a \in AddrIds : PassToNative("Connect", a)

SpecAddr == Init /\ [][NextAddr]_vars

----------------------------------------------------------------------------
(* Properties of the Host and its Peers (specification Spec; C2: SpecSend). *)

\* C2: a send operation whose native call reports failure through its return
\* code returns a non-nil error.
C2_SendFailureIsError ==
    (hostOp \in SendOps /\ ret.called /\ ret.rc < 0) => ret.err

\* C3: a Service call returns at most one event: the None sentinel when the
\* native call reported nothing, otherwise exactly the event the native call
\* reported, which is the oldest pending one and is removed from the pending
\* events by that call alone, so none is returned twice and none is dropped.
C3_ServiceReturnsReportedEvent ==
    hostOp = "Service" =>
        /\ ret.event = ret.nativeEvent
        /\ ret.nativeRc <= 0 => (ret.event = EmptyEvent /\ events = ret.pending)
        /\ ret.nativeRc > 0 =>
              /\ ret.event.type \in {"Connect", "Disconnect", "Receive"}
              /\ ret.pending # << >>
              /\ ret.event = Head(ret.pending)
              /\ events = Tail(ret.pending)

\* C3 witness: a Service call that returned a Receive event.
C3_Witness ==
    /\ hostOp = "Service"
    /\ ret.nativeRc = 1
    /\ ret.event.type = "Receive"

----------------------------------------------------------------------------
(* Properties of the counters (specification SpecStats).                    *)

\* C7: each of the four resets makes its own getter return 0 and leaves the
\* values of the other three getters as they were.
C7_ResetsAreIndependent ==
    [][ /\ statOp' = "ResetBytesSent" =>
              /\ GetBytesSent' = 0
              /\ GetBytesReceived' = GetBytesReceived
              /\ GetPacketsSent' = GetPacketsSent
              /\ GetPacketsReceived' = GetPacketsReceived
        /\ statOp' = "ResetBytesReceived" =>
              /\ GetBytesReceived' = 0
              /\ GetBytesSent' = GetBytesSent
              /\ GetPacketsSent' = GetPacketsSent
              /\ GetPacketsReceived' = GetPacketsReceived
        /\ statOp' = "ResetPacketsSent" =>
              /\ GetPacketsSent' = 0
              /\ GetBytesSent' = GetBytesSent
              /\ GetBytesReceived' = GetBytesReceived
              /\ GetPacketsReceived' = GetPacketsReceived
        /\ statOp' = "ResetPacketsReceived" =>
              /\ GetPacketsReceived' = 0
              /\ GetBytesSent' = GetBytesSent
              /\ GetBytesReceived' = GetBytesReceived
              /\ GetPacketsSent' = GetPacketsSent ]_vars

\* C7 witness: bytes sent was reset while the other three counters were not 0.
C7_Witness ==
    /\ statOp = "ResetBytesSent"
    /\ GetBytesSent = 0
    /\ GetPacketsSent > 0
    /\ GetBytesReceived > 0
    /\ GetPacketsReceived > 0

----------------------------------------------------------------------------
(* Properties of Address objects (specification SpecAddr).                  *)

SetterOps == {"SetHost", "SetHostAny", "SetPort"}

\* C8 as stated: once NewAddress or NewListenAddress has returned an Address,
\* no operation of the public interface changes its host or its port.
C8_AddressImmutable ==
    [][ \A a \in AddrIds : addrs[a].made => addrs'[a] = addrs[a] ]_vars

\* C8 amended: the host or the port of a constructed Address changes only
\* through that Address's own SetHost, SetHostAny or SetPort; every other
\* operation leaves it alone, and String() and GetPort() return the values it
\* holds.
C8_ChangedOnlyByOwnSetters ==
    [][ /\ \A a \in AddrIds :
              (addrs[a].made /\ addrs'[a] # addrs[a]) =>
                  (addrOp' \in SetterOps /\ addrRet'.a = a)
        /\ addrOp' = "GetPort" => addrRet'.val = addrs[addrRet'.a].port
        /\ addrOp' = "String" =>
              addrRet'.val = EnetAddressGetIp(addrs[addrRet'.a].host) ]_vars

\* C8 witness: SetPort was called on one of two constructed Addresses and the
\* two now hold different ports.
C8_Witness ==
    /\ addrOp = "SetPort"
    /\ \A a \in AddrIds : addrs[a].made
    /\ \E a, b \in AddrIds : addrs[a].port # addrs[b].port

====
